---- MODULE Spec2Model ----
(***************************************************************************)
(* Model of the SmartPort command decoder firmware                         *)
(* (phase2_command_decoder/main/command_decoder.c).                        *)
(*                                                                         *)
(* Spec        capture sessions: capture_packet() with its helpers         *)
(*             wait_for_write_mode, check_wrdata_activity, read_byte_raw   *)
(*             and drive_enabled, run again and again against bus lines    *)
(*             that the host changes at will.                              *)
(* LiveSpec    Spec plus weak fairness of the firmware's own steps.        *)
(* SpecDecode  analyze_capture() with find_sync_pattern and                *)
(*             get_command_name applied to a family of captured buffers.   *)
(*                                                                         *)
(* Time is in microseconds.  The firmware only ever uses differences       *)
(* esp_timer_get_time() - start_time, so the variable timer holds the time *)
(* elapsed since the most recent sample of start_time (lines 217 and 260). *)
(***************************************************************************)
EXTENDS Integers, Sequences, FiniteSets, TLC

VARIABLES
    pc,             \* position of the firmware inside capture_packet / analysis
    reason,         \* which exit of capture_packet was taken
    capture_buffer, \* static uint8_t capture_buffer[CAPTURE_SIZE]
    capture_len,    \* static int capture_len
    timer,          \* esp_timer_get_time() - start_time
    transitions,    \* local 'transitions' of capture_packet (line 248)
    enbl1,          \* level of PIN_ENBL1 (active low)
    enbl2,          \* level of PIN_ENBL2 (active low)
    wreq,           \* level of PIN_WREQ  (active low)
    wrdata,         \* level of PIN_WRDATA
    wr_index,       \* index of the last store into capture_buffer (-1: none)
    desel_ever,     \* drive_enabled fell to false during a byte read of this session
    report,         \* what analyze_capture printed
    reads,          \* buffer indices find_sync_pattern (.sync) and analyze_capture
                    \* itself (.decode) read
    ack_level,      \* output level set on PIN_ACK
    ack_mode,       \* direction mode of PIN_ACK
    rddata_level,   \* output level set on PIN_RDDATA
    rddata_mode,    \* direction mode of PIN_RDDATA
    last_call,      \* the handshake function called last
    main_pc,        \* position of app_main inside its loop
    command_active, \* local 'command_active' of app_main
    phases,         \* levels of PIN_PHI3..PIN_PHI0, as read_phases packs them
    last_phases,    \* local 'last_phases' of app_main
    rb_pc,          \* position inside read_byte_raw
    rb_i,           \* local 'i' of read_byte_raw
    rb_byte,        \* local 'byte' of read_byte_raw
    rb_clock,       \* microseconds delayed since read_byte_raw was called
    rb_times,       \* the times at which read_byte_raw sampled the line
    rb_line         \* levels of PIN_WRDATA in the bit cells that follow the call

\* the capture session and the analysis
capvars == <<pc, reason, capture_buffer, capture_len, timer, transitions,
             enbl1, enbl2, wreq, wrdata, wr_index, desel_ever, report, reads>>
\* the handshake outputs
linevars == <<ack_level, ack_mode, rddata_level, rddata_mode, last_call>>
\* the main loop
mainvars == <<main_pc, command_active, phases, last_phases>>
\* one call of read_byte_raw, sample by sample
rbvars == <<rb_pc, rb_i, rb_byte, rb_clock, rb_times, rb_line>>

vars == <<capvars, linevars, mainvars, rbvars>>

(***************************************************************************)
(* Program constants                                                       *)
(***************************************************************************)
BIT_TIME_US == 4
HALF_BIT_US == 2
CAPTURE_TIMEOUT_US == 10000
CAPTURE_SIZE == 128
WAIT_TIMEOUT_US == 50000
ACTIVITY_WINDOW_US == 2000

SYNC_PATTERN == <<255, 63, 207, 243, 252, 255>>
PKT_START == 195

(***************************************************************************)
(* Bounds of the model                                                     *)
(***************************************************************************)
\* time one iteration of the polling loop of wait_for_write_mode takes
PollUs == 12500
\* most level changes check_wrdata_activity can count in its window
MaxTransitions == 2

\* A byte read that is held up (interrupt, task switch) lasts this much longer.
\* Chosen so that the elapsed time can land exactly on the capture timeout.
StallUs == CAPTURE_TIMEOUT_US - 8 * BIT_TIME_US

Byte == 0..255
Level == {0, 1}
\* nothing analysed yet
NoReport == [sync |-> -2, pkt |-> -1, hdr |-> <<>>, cmd |-> <<>>, warn |-> ""]
NoReads == [sync |-> {}, decode |-> {}, header |-> {}]

(***************************************************************************)
(* Helpers                                                                 *)
(***************************************************************************)
\* an enable condition that needs both lines low
drive_enabled_Both(e1, e2) == (e1 = 0) /\ (e2 = 0)

\* drive_enabled(): !ENBL1 || !ENBL2
drive_enabled(e1, e2) == (e1 = 0) \/ (e2 = 0)

\* a shift that puts the first sample in bit 0
ShiftIn_LsbFirst(byte, sample) == (byte \div 2) + 128 * sample

\* one iteration of the loop of read_byte_raw: byte = (byte << 1) | sample, in uint8_t
ShiftIn(byte, sample) == ((byte * 2) % 256) + sample

RECURSIVE ReadLoop(_, _, _)
ReadLoop(samples, i, byte) ==
    IF i >= 8 THEN byte
    ELSE ReadLoop(samples, i + 1, ShiftIn(byte, samples[i + 1]))

\* read_byte_raw(): 8 samples, the first one ends up in bit 7
read_byte_raw(samples) == ReadLoop(samples, 0, 0)

\* duration of one call of read_byte_raw: 8 x (HALF_BIT_US + HALF_BIT_US)
ByteTimeUs == 8 * (HALF_BIT_US + HALF_BIT_US)

\* the 8 samples read_byte_raw takes from a line held at one level
HeldSamples(level) == [i \in 1..8 |-> level]

(***************************************************************************)
(* configure_gpio and the handshake signals                                *)
(***************************************************************************)
\* a configuration that leaves read-data at the level the latch resets to
configure_gpio_RdLow ==
    [ack_level |-> 1, ack_mode |-> "INPUT_OUTPUT",
     rddata_level |-> 0, rddata_mode |-> "OUTPUT"]

\* configure_gpio(): PIN_ACK input/output and set to 1 (lines 120-128),
\* PIN_RDDATA output and set to 1 (lines 131-141)
configure_gpio ==
    [ack_level |-> 1, ack_mode |-> "INPUT_OUTPUT",
     rddata_level |-> 1, rddata_mode |-> "OUTPUT"]

\* the output lines as configure_gpio leaves them (line 383)
LinesConfigured ==
    /\ ack_level = configure_gpio.ack_level
    /\ ack_mode = configure_gpio.ack_mode
    /\ rddata_level = configure_gpio.rddata_level
    /\ rddata_mode = configure_gpio.rddata_mode
    /\ last_call = "configure_gpio"

\* app_main before its loop (lines 386-387), with the phase lines low
MainAtRest ==
    /\ main_pc = "poll"
    /\ command_active = FALSE
    /\ phases = 0
    /\ last_phases = 255

\* no call of read_byte_raw under way
ReadByteAtRest ==
    /\ rb_pc = "idle"
    /\ rb_i = 0
    /\ rb_byte = 0
    /\ rb_clock = 0
    /\ rb_times = <<>>
    /\ rb_line = <<>>

(***************************************************************************)
(* capture_packet                                                          *)
(***************************************************************************)
\* a capture timer that goes on counting from the request
CaptureStartTimer_Keep(t) == t

\* line 260: start_time = esp_timer_get_time(), the capture timer starts over
CaptureStartTimer(t) == 0

\* a capture timeout of a tenth of CAPTURE_TIMEOUT_US
CaptureTimedOut_Tenth(t) == t > CAPTURE_TIMEOUT_US \div 10

\* a capture loop that tests against the timeout of the request wait
CaptureTimedOut_WaitConstant(t) == t > WAIT_TIMEOUT_US

\* line 263: now - start_time > CAPTURE_TIMEOUT_US
CaptureTimedOut(t) == t > CAPTURE_TIMEOUT_US

\* a loop condition that is off by one
LoopCondition_OffByOne(len) == len <= CAPTURE_SIZE

\* line 261: capture_len < CAPTURE_SIZE
LoopCondition(len) == len < CAPTURE_SIZE

\* a wait window that is still open at the timeout itself
WaitWindowOpen_Inclusive(t) == t <= WAIT_TIMEOUT_US

\* line 218: (esp_timer_get_time() - start) < timeout_us
WaitWindowOpen(t) == t < WAIT_TIMEOUT_US

\* lines 229-235: entry of capture_packet
CaptureEntry ==
    /\ UNCHANGED <<linevars, mainvars, rbvars>>
    /\ pc \in {"idle", "done"}
    /\ pc' = "wait"
    /\ reason' = "NONE"
    /\ capture_len' = 0
    /\ timer' = 0
    /\ transitions' = 0
    /\ wr_index' = -1
    /\ desel_ever' = FALSE
    /\ UNCHANGED <<capture_buffer, enbl1, enbl2, wreq, wrdata, report, reads>>

\* lines 218-220: the wait loop sees _wrreq low and returns true
WaitSeeRequest ==
    /\ UNCHANGED <<linevars, mainvars, rbvars>>
    /\ pc = "wait"
    /\ WaitWindowOpen(timer)
    /\ wreq = 0
    /\ pc' = "activity"
    /\ timer' = 0
    /\ UNCHANGED <<reason, capture_buffer, capture_len, transitions, enbl1, enbl2,
                   wreq, wrdata, wr_index, desel_ever, report, reads>>

\* lines 218-222: the wait loop sees _wrreq high and goes round again
WaitPoll ==
    /\ UNCHANGED <<linevars, mainvars, rbvars>>
    /\ pc = "wait"
    /\ WaitWindowOpen(timer)
    /\ wreq = 1
    /\ timer' = timer + PollUs
    /\ UNCHANGED <<pc, reason, capture_buffer, capture_len, transitions, enbl1,
                   enbl2, wreq, wrdata, wr_index, desel_ever, report, reads>>

\* lines 223, 236-244: the wait timed out, capture_packet returns
WaitTimeout ==
    /\ UNCHANGED <<linevars, mainvars, rbvars>>
    /\ pc = "wait"
    /\ ~WaitWindowOpen(timer)
    /\ pc' = "done"
    /\ reason' = "TIMEOUT"
    /\ UNCHANGED <<capture_buffer, capture_len, timer, transitions, enbl1, enbl2,
                   wreq, wrdata, wr_index, desel_ever, report, reads>>

\* an activity check that gives the session up when the drive is not enabled
AfterActivity_Gated(e1, e2) == IF drive_enabled(e1, e2) THEN "checked" ELSE "done"

\* lines 248-258: capture_packet goes on after the activity check without
\* reading the enable lines
AfterActivity(e1, e2) == "checked"

\* lines 187-209, 248: check_wrdata_activity(2000) counts level changes of wrdata
ActivityCheck ==
    /\ UNCHANGED <<linevars, mainvars, rbvars>>
    /\ pc = "activity"
    /\ \E n \in 0..MaxTransitions : transitions' = n
    /\ timer' = timer + ACTIVITY_WINDOW_US
    /\ pc' = AfterActivity(enbl1, enbl2)
    /\ UNCHANGED <<reason, capture_buffer, capture_len, enbl1, enbl2, wreq, wrdata,
                   wr_index, desel_ever, report, reads>>

\* lines 250-260: the diagnostic print, then the capture timer is started
CaptureStart ==
    /\ UNCHANGED <<linevars, mainvars, rbvars>>
    /\ pc = "checked"
    /\ pc' = "capture"
    /\ timer' = CaptureStartTimer(timer)
    /\ transitions' = 0
    /\ UNCHANGED <<reason, capture_buffer, capture_len, enbl1, enbl2, wreq, wrdata,
                   wr_index, desel_ever, report, reads>>

\* line 261: the loop condition fails, the buffer is full
LoopFull ==
    /\ UNCHANGED <<linevars, mainvars, rbvars>>
    /\ pc = "capture"
    /\ ~LoopCondition(capture_len)
    /\ pc' = "done"
    /\ reason' = "FULL"
    /\ UNCHANGED <<capture_buffer, capture_len, timer, transitions, enbl1, enbl2,
                   wreq, wrdata, wr_index, desel_ever, report, reads>>

\* lines 262-265: the capture timeout has passed
LoopTimeout ==
    /\ UNCHANGED <<linevars, mainvars, rbvars>>
    /\ pc = "capture"
    /\ LoopCondition(capture_len)
    /\ CaptureTimedOut(timer)
    /\ pc' = "done"
    /\ reason' = "TIMEOUT"
    /\ UNCHANGED <<capture_buffer, capture_len, timer, transitions, enbl1, enbl2,
                   wreq, wrdata, wr_index, desel_ever, report, reads>>

\* line 267: read_byte_raw is called
ReadStart ==
    /\ UNCHANGED <<linevars, mainvars, rbvars>>
    /\ pc = "capture"
    /\ LoopCondition(capture_len)
    /\ ~CaptureTimedOut(timer)
    /\ pc' = "read"
    /\ UNCHANGED <<reason, capture_buffer, capture_len, timer, transitions, enbl1,
                   enbl2, wreq, wrdata, wr_index, desel_ever, report, reads>>

\* a capture loop that never samples the enable lines
AfterStore_NoCheck(e1, e2) == "capture"

\* a capture loop that leaves when the drive is still enabled
AfterStore_Inverted(e1, e2) == IF drive_enabled(e1, e2) THEN "done" ELSE "capture"

\* lines 270-272: after the store, leave the loop if the drive is no longer enabled
AfterStore(e1, e2) == IF drive_enabled(e1, e2) THEN "capture" ELSE "done"

\* a store that always writes the first element
StoreIndex_First(len) == 0

\* line 267: the index capture_buffer[capture_len++] stores at
StoreIndex(len) == len

\* lines 267-272: read_byte_raw returns, the byte is stored, the enables are sampled
ReadEnd ==
    /\ UNCHANGED <<linevars, mainvars, rbvars>>
    /\ pc = "read"
    /\ \E stall \in {0, StallUs} : timer' = timer + ByteTimeUs + stall
    /\ wr_index' = StoreIndex(capture_len)
    /\ capture_buffer' =
          IF StoreIndex(capture_len) \in DOMAIN capture_buffer
          THEN [capture_buffer EXCEPT ![StoreIndex(capture_len)] =
                                          read_byte_raw(HeldSamples(wrdata))]
          ELSE capture_buffer
    /\ capture_len' = capture_len + 1
    /\ pc' = AfterStore(enbl1, enbl2)
    /\ reason' = IF AfterStore(enbl1, enbl2) = "done" THEN "DESELECTED" ELSE reason
    /\ UNCHANGED <<transitions, enbl1, enbl2, wreq, wrdata, desel_ever, report, reads>>

(***************************************************************************)
(* The host                                                                *)
(***************************************************************************)
\* Time passes while the firmware waits, checks activity or reads a byte;
\* the bus lines can change then.
TimePasses == pc \in {"wait", "activity", "read"}

HostEnable ==
    /\ UNCHANGED <<linevars, mainvars, rbvars>>
    /\ TimePasses
    /\ \E e1, e2 \in Level :
          /\ <<e1, e2>> # <<enbl1, enbl2>>
          /\ enbl1' = e1
          /\ enbl2' = e2
          /\ desel_ever' = (desel_ever \/ (pc = "read" /\ drive_enabled(enbl1, enbl2)
                                            /\ ~drive_enabled(e1, e2)))
    /\ UNCHANGED <<pc, reason, capture_buffer, capture_len, timer, transitions,
                   wreq, wrdata, wr_index, report, reads>>

HostRequest ==
    /\ UNCHANGED <<linevars, mainvars, rbvars>>
    /\ pc = "wait"
    /\ wreq' = 1 - wreq
    /\ UNCHANGED <<pc, reason, capture_buffer, capture_len, timer, transitions,
                   enbl1, enbl2, wrdata, wr_index, desel_ever, report, reads>>

(***************************************************************************)
(* Specification of the capture sessions                                   *)
(***************************************************************************)
Init ==
    /\ pc = "idle"
    /\ reason = "NONE"
    /\ capture_buffer = [i \in 0..(CAPTURE_SIZE - 1) |-> 0]
    /\ capture_len = 0
    /\ timer = 0
    /\ transitions = 0
    /\ enbl1 \in Level
    /\ enbl2 \in Level
    /\ wreq \in Level
    /\ wrdata \in Level
    /\ wr_index = -1
    /\ desel_ever = FALSE
    /\ report = NoReport
    /\ reads = NoReads
    /\ LinesConfigured
    /\ MainAtRest
    /\ ReadByteAtRest

Firmware ==
    \/ CaptureEntry
    \/ WaitSeeRequest
    \/ WaitPoll
    \/ WaitTimeout
    \/ ActivityCheck
    \/ CaptureStart
    \/ LoopFull
    \/ LoopTimeout
    \/ ReadStart
    \/ ReadEnd

Next ==
    \/ Firmware
    \/ HostEnable
    \/ HostRequest

Spec == Init /\ [][Next]_vars

LiveSpec == Spec /\ WF_vars(Firmware)

TypeOK ==
    /\ pc \in {"idle", "wait", "activity", "checked", "capture", "read", "done",
              "analyzed"}
    /\ reason \in {"NONE", "FULL", "TIMEOUT", "DESELECTED"}
    /\ capture_len \in 0..CAPTURE_SIZE
    /\ ack_level \in Level /\ rddata_level \in Level
    /\ ack_mode \in {"INPUT", "INPUT_OUTPUT", "OUTPUT"}
    /\ rddata_mode \in {"INPUT", "INPUT_OUTPUT", "OUTPUT"}
    /\ last_call \in {"none", "configure_gpio", "ack_assert", "ack_deassert"}
    /\ main_pc \in {"poll", "sample", "wait_disable"}
    /\ command_active \in BOOLEAN
    /\ phases \in 0..15
    /\ last_phases \in 0..255
    /\ rb_pc \in {"idle", "delay1", "sample", "delay2", "ret"}
    /\ rb_i \in 0..8
    /\ rb_byte \in Byte
    /\ rb_clock \in 0..(8 * BIT_TIME_US)

(***************************************************************************)
(* find_sync_pattern, get_command_name, analyze_capture                    *)
(***************************************************************************)
\* sizeof(SYNC_PATTERN)
SyncLen == Len(SYNC_PATTERN)

\* The comparisons of lines 282 and 286 are made in size_t (32 bits, unsigned).
\* capture_len and i are never negative, so their conversion changes nothing;
\* a difference below zero wraps to a value just under 2^32, which is beyond
\* every int index.  The model checker's integers stop short of 2^32, and
\* WrappedStart stands for any such value.
WrappedStart == 2 ^ 30

\* line 282: capture_len < sizeof(SYNC_PATTERN)
TooShort(len) == len < SyncLen

\* line 286: capture_len - sizeof(SYNC_PATTERN), in size_t
LastStart(len) == IF len - SyncLen < 0 THEN WrappedStart ELSE len - SyncLen

\* a scan that stops one offset early: i < capture_len - sizeof(SYNC_PATTERN)
LastOffset_Strict(len) == LastStart(len) - 1

\* line 286: i <= capture_len - sizeof(SYNC_PATTERN), the last offset the loop visits
LastOffset(len) == LastStart(len)

\* lines 288-293: compare from pattern index j on; stops at the first mismatch
RECURSIVE MatchFrom(_, _, _, _)
MatchFrom(buf, i, j, seen) ==
    IF j >= SyncLen THEN [match |-> TRUE, reads |-> seen]
    ELSE IF buf[i + j] # SYNC_PATTERN[j + 1]
         THEN [match |-> FALSE, reads |-> seen \cup {i + j}]
         ELSE MatchFrom(buf, i, j + 1, seen \cup {i + j})

\* a scan that visits the offsets in descending order and so finds the
\* rightmost pattern
RECURSIVE ScanRange_Descending(_, _, _, _)
ScanRange_Descending(buf, lo, hi, seen) ==
    IF lo > hi THEN [offset |-> -1, reads |-> seen]
    ELSE IF lo = hi
         THEN LET m == MatchFrom(buf, lo, 0, seen)
              IN  [offset |-> IF m.match THEN lo ELSE -1, reads |-> m.reads]
         ELSE LET mid   == (lo + hi) \div 2
                  upper == ScanRange_Descending(buf, mid + 1, hi, seen)
              IN  IF upper.offset >= 0 THEN upper
                  ELSE ScanRange_Descending(buf, lo, mid, upper.reads)

\* lines 286-297: the loop over the offsets lo..hi, visited in ascending order
\* until the first match.  The range is split in halves, the lower half first,
\* only to keep the evaluation shallow; the visits are those of the loop.
RECURSIVE ScanRange(_, _, _, _)
ScanRange(buf, lo, hi, seen) ==
    IF lo > hi THEN [offset |-> -1, reads |-> seen]
    ELSE IF lo = hi
         THEN LET m == MatchFrom(buf, lo, 0, seen)
              IN  [offset |-> IF m.match THEN lo ELSE -1, reads |-> m.reads]
         ELSE LET mid   == (lo + hi) \div 2
                  lower == ScanRange(buf, lo, mid, seen)
              IN  IF lower.offset >= 0 THEN lower
                  ELSE ScanRange(buf, mid + 1, hi, lower.reads)

\* find_sync_pattern(): the offset found (-1: none) and the indices compared
find_sync_pattern(buf, len) ==
    IF TooShort(len) THEN [offset |-> -1, reads |-> {}]
    ELSE ScanRange(buf, 0, LastOffset(len), {})

\* a table whose last entry was left out
get_command_name_Short(cmd) ==
    CASE cmd = 0 -> "STATUS"
      [] cmd = 1 -> "READBLOCK"
      [] cmd = 2 -> "WRITEBLOCK"
      [] cmd = 3 -> "FORMAT"
      [] cmd = 4 -> "CONTROL"
      [] cmd = 5 -> "INIT"
      [] cmd = 6 -> "OPEN"
      [] cmd = 7 -> "CLOSE"
      [] cmd = 8 -> "READ"
      [] OTHER   -> "UNKNOWN"

\* get_command_name()
get_command_name(cmd) ==
    CASE cmd = 0 -> "STATUS"
      [] cmd = 1 -> "READBLOCK"
      [] cmd = 2 -> "WRITEBLOCK"
      [] cmd = 3 -> "FORMAT"
      [] cmd = 4 -> "CONTROL"
      [] cmd = 5 -> "INIT"
      [] cmd = 6 -> "OPEN"
      [] cmd = 7 -> "CLOSE"
      [] cmd = 8 -> "READ"
      [] cmd = 9 -> "WRITE"
      [] OTHER   -> "UNKNOWN"

\* a header test that lets the command byte lie at the captured length
HeaderAvailable_Inclusive(pkt_start, len) == pkt_start + 8 <= len

\* a header test that only asks for dest, src and type
HeaderAvailable_UpToType(pkt_start, len) == pkt_start + 3 < len

\* line 339: pkt_start + 8 < capture_len
HeaderAvailable(pkt_start, len) == pkt_start + 8 < len

\* a test that takes the extended command type only for no command type
IsCommandType_Only80(type) == type = 128

\* line 347: type == 0x80 || type == 0x85
IsCommandType(type) == type = 128 \/ type = 133

\* a test that takes any byte after the pattern for the packet start
IsPacketStart_Any(b) == TRUE

\* line 326: capture_buffer[pkt_start] == 0xC3
IsPacketStart(b) == b = PKT_START

\* lines 310-313: the hex dump reads the first 32 captured bytes at most
DumpReads(len) == 0..((IF len > 32 THEN 32 ELSE len) - 1)

\* lines 339-351: the header fields, when the buffer reaches the command byte
DecodeHeader(buf, len, pkt_start) ==
    IF HeaderAvailable(pkt_start, len)
    THEN LET dest == buf[pkt_start + 1]
             src  == buf[pkt_start + 2]
             type == buf[pkt_start + 3]
             cmd  == buf[pkt_start + 8]
         IN  [hdr |-> <<dest, src, type>>,
              cmd |-> IF IsCommandType(type)
                      THEN <<cmd, get_command_name(cmd)>> ELSE <<>>,
              reads |-> {pkt_start + 1, pkt_start + 2, pkt_start + 3, pkt_start + 8}]
    ELSE [hdr |-> <<>>, cmd |-> <<>>, reads |-> {}]

\* a classification that tests all_one before all_zero
Classify_OneFirst(buf, len) ==
    LET all_zero == \A i \in 0..(len - 1) : buf[i] = 0
        all_one  == \A i \in 0..(len - 1) : buf[i] = 255
    IN  IF all_one THEN "ALL_ONE" ELSE IF all_zero THEN "ALL_ZERO" ELSE "NO_SYNC"

\* lines 355-369: the classification of a buffer without sync pattern
Classify(buf, len) ==
    LET all_zero == \A i \in 0..(len - 1) : buf[i] = 0
        all_one  == \A i \in 0..(len - 1) : buf[i] = 255
    IN  IF all_zero THEN "ALL_ZERO" ELSE IF all_one THEN "ALL_ONE" ELSE "NO_SYNC"

\* analyze_capture(): what is printed, and which buffer indices are read
analyze_capture(buf, len) ==
    LET fs == find_sync_pattern(buf, len)
        pkt_start == fs.offset + SyncLen
    IN  IF fs.offset >= 0
        THEN IF pkt_start < len
             THEN IF IsPacketStart(buf[pkt_start])
                  THEN LET h == DecodeHeader(buf, len, pkt_start)
                       IN  [sync |-> fs.offset, pkt |-> pkt_start, hdr |-> h.hdr,
                            cmd |-> h.cmd, warn |-> "", sync_reads |-> fs.reads,
                            reads |-> DumpReads(len) \cup {pkt_start} \cup h.reads,
                            hdr_reads |-> h.reads]
                  ELSE [sync |-> fs.offset, pkt |-> -1, hdr |-> <<>>, cmd |-> <<>>,
                        warn |-> "", sync_reads |-> fs.reads,
                        reads |-> DumpReads(len) \cup {pkt_start}, hdr_reads |-> {}]
             ELSE [sync |-> fs.offset, pkt |-> -1, hdr |-> <<>>, cmd |-> <<>>,
                   warn |-> "", sync_reads |-> fs.reads, reads |-> DumpReads(len),
                   hdr_reads |-> {}]
        ELSE [sync |-> -1, pkt |-> -1, hdr |-> <<>>, cmd |-> <<>>,
              warn |-> Classify(buf, len), sync_reads |-> fs.reads,
              reads |-> DumpReads(len) \cup 0..(len - 1), hdr_reads |-> {}]

\* analyze_capture() run on the buffer a finished session left
AnalyzeCapture ==
    /\ UNCHANGED <<linevars, mainvars, rbvars>>
    /\ pc = "done"
    /\ pc' = "analyzed"
    /\ LET a == analyze_capture(capture_buffer, capture_len)
       IN  /\ report' = [sync |-> a.sync, pkt |-> a.pkt, hdr |-> a.hdr,
                         cmd |-> a.cmd, warn |-> a.warn]
           /\ reads' = [sync |-> a.sync_reads, decode |-> a.reads,
                         header |-> a.hdr_reads]
    /\ UNCHANGED <<reason, capture_buffer, capture_len, timer, transitions, enbl1,
                   enbl2, wreq, wrdata, wr_index, desel_ever>>

(***************************************************************************)
(* Specification of the decoder: analyze_capture applied to captured       *)
(* buffers that hold junk, partial and complete sync patterns, a packet    *)
(* start byte and a header, cut off at every length.                       *)
(***************************************************************************)
\* longest buffer of one repeated byte
MaxPlain == 8
\* bytes captured after the command byte
MaxTrailer == 1

\* the byte of buffer cells that no content reaches
StaleByte == 90

Repeat(b, n) == [i \in 1..n |-> b]

\* what was captured before the sync pattern
Prefixes ==
    { <<>>, <<0>>, <<255>>,
      <<255, 63, 207, 243, 0>>,                \* a run of the pattern broken at its 5th byte
      <<255, 63, 207, 243, 252>>,              \* completes to a pattern with the next byte
      SYNC_PATTERN \o <<0>>,                   \* a whole pattern, no packet start after it
      Repeat(0, CAPTURE_SIZE - SyncLen),       \* the pattern ends the buffer
      Repeat(0, CAPTURE_SIZE - SyncLen - 9) }  \* the command byte ends the buffer

StartBytes == {PKT_START, 60}
TypeBytes == {128, 133, 129}
FewCommands == {1, 32}

\* SYNC ++ [start, dest, src, type, aux, status, odd, grp, cmd] ++ trailer
Packet(start, type, cmd) ==
    SYNC_PATTERN \o <<start, 129, 130, type, 131, 132, 134, 135, cmd>>
                 \o Repeat(200, MaxTrailer)

\* packets behind every prefix, and the packet at offset 0 with every command code
PacketContents ==
    { p \o Packet(st, ty, c) :
        p \in Prefixes, st \in StartBytes, ty \in TypeBytes, c \in FewCommands }
    \cup { Packet(PKT_START, 128, c) : c \in Byte }

\* buffers of one repeated byte, and with one other byte in them
PlainContents ==
    { Repeat(b, n) : b \in {0, 255}, n \in 0..MaxPlain }
    \cup { [Repeat(b, n) EXCEPT ![k] = 255 - b] :
             b \in {0, 255}, n \in {MaxPlain}, k \in {1, MaxPlain} }

\* buffers filled to capacity with one repeated byte, and with another last byte
FullContents ==
    { Repeat(b, CAPTURE_SIZE) : b \in {0, 255} }
    \cup { [Repeat(b, CAPTURE_SIZE) EXCEPT ![CAPTURE_SIZE] = 255 - b] : b \in {0, 255} }

\* the packet at offset 0 with every type byte
TypedContents == { Packet(PKT_START, ty, 1) : ty \in Byte }

Contents == PacketContents \cup PlainContents \cup FullContents \cup TypedContents

MinOf(a, b) == IF a < b THEN a ELSE b

\* the buffer array holding content c
BufferOf(c) ==
    [i \in 0..(CAPTURE_SIZE - 1) |-> IF i < Len(c) THEN c[i + 1] ELSE StaleByte]

InitDecode ==
    /\ pc = "done"
    /\ \E c \in Contents :
          /\ capture_buffer = BufferOf(c)
          /\ capture_len \in 0..MinOf(Len(c), CAPTURE_SIZE)
    /\ reason = (IF capture_len = CAPTURE_SIZE THEN "FULL" ELSE
                 IF capture_len = 0 THEN "TIMEOUT" ELSE "DESELECTED")
    /\ timer = (IF capture_len = 0 THEN WAIT_TIMEOUT_US ELSE capture_len * ByteTimeUs)
    /\ transitions = 0
    /\ enbl1 = 1
    /\ enbl2 = 1
    /\ wreq = (IF capture_len = 0 THEN 1 ELSE 0)
    /\ wrdata = 1
    /\ wr_index = capture_len - 1
    /\ desel_ever = FALSE
    /\ report = NoReport
    /\ reads = NoReads
    /\ LinesConfigured
    /\ MainAtRest
    /\ ReadByteAtRest

NextDecode == AnalyzeCapture

SpecDecode == InitDecode /\ [][NextDecode]_vars

(***************************************************************************)
(* Claims about the capture sessions                                       *)
(***************************************************************************)
Capturing == pc \in {"capture", "read"}
LinesInactive == enbl1 = 1 /\ enbl2 = 1

\* C1: in every reachable state 0 <= capture_len <= CAPTURE_SIZE, and every
\* store capture_packet made went to an index strictly below CAPTURE_SIZE.
C1_LengthWithinCapacity ==
    /\ capture_len \in 0..CAPTURE_SIZE
    /\ wr_index \in -1..(CAPTURE_SIZE - 1)
    /\ wr_index < capture_len

\* a session filled the buffer: the last store went to index 127
C1_Witness ==
    /\ pc = "done"
    /\ reason = "FULL"
    /\ capture_len = CAPTURE_SIZE
    /\ wr_index = CAPTURE_SIZE - 1

\* C2 as claimed: a session whose enable lines were forced inactive during
\* CAPTURING, and stayed so, ends DESELECTED with fewer than CAPTURE_SIZE bytes.
C2_DeselectedBelowCapacity ==
    (pc = "done" /\ desel_ever /\ LinesInactive)
        => (reason = "DESELECTED" /\ capture_len < CAPTURE_SIZE)

\* C2 as amended: such a session ends DESELECTED, the byte that was being read
\* is stored, and the length is at most CAPTURE_SIZE; it is CAPTURE_SIZE only
\* when the last store went to the last index.
C2_DeselectedWithinCapacity ==
    (pc = "done" /\ desel_ever /\ LinesInactive)
        => /\ reason = "DESELECTED"
           /\ capture_len >= 1
           /\ capture_len <= CAPTURE_SIZE
           /\ capture_len = wr_index + 1

\* the enable lines went inactive while the 128th byte was being read
C2_Witness ==
    /\ pc = "done"
    /\ desel_ever
    /\ LinesInactive
    /\ reason = "DESELECTED"
    /\ capture_len = CAPTURE_SIZE

\* C3: no byte read is under way that was started with more than
\* CAPTURE_TIMEOUT_US elapsed; a session at the head of the capture loop with
\* room in the buffer and more than CAPTURE_TIMEOUT_US elapsed leaves the loop
\* by the timeout exit and nothing else; and a session that stored a byte and
\* ended neither FULL nor DESELECTED ended TIMEOUT with the timeout exceeded.
C3_TimeoutEndsSession ==
    /\ [](pc = "read" => timer <= CAPTURE_TIMEOUT_US)
    /\ [][(pc = "capture" /\ capture_len < CAPTURE_SIZE /\ timer > CAPTURE_TIMEOUT_US)
            => (pc' = "done" /\ reason' = "TIMEOUT" /\ capture_len' = capture_len)]_vars
    /\ []((pc = "done" /\ wr_index >= 0 /\ reason \notin {"FULL", "DESELECTED"})
            => (reason = "TIMEOUT" /\ timer > CAPTURE_TIMEOUT_US
                /\ capture_len < CAPTURE_SIZE))
    /\ ((pc = "capture" /\ capture_len < CAPTURE_SIZE /\ timer > CAPTURE_TIMEOUT_US)
            ~> (pc = "done" /\ reason = "TIMEOUT"))

\* a session that stored bytes, was held up and ended by the capture timeout
C3_Witness ==
    /\ pc = "done"
    /\ reason = "TIMEOUT"
    /\ wr_index >= 0
    /\ capture_len < CAPTURE_SIZE
    /\ timer > CAPTURE_TIMEOUT_US
    /\ ~desel_ever

\* C4 as claimed: once the enable condition has fallen during CAPTURING no
\* further byte read is started, even if the lines come back before the byte
\* in progress is complete.
C4_NoReadAfterDeselect ==
    [][(pc = "capture" /\ pc' = "read") => ~desel_ever]_vars

\* C4 as amended: the enable lines are sampled once, after each byte is
\* stored; the session ends DESELECTED at that sample, with no further read,
\* exactly when both lines are inactive then.
C4_SampledAfterEachByte ==
    [][(pc = "read" /\ pc' # "read")
         => /\ capture_len' = capture_len + 1
            /\ (pc' = "done" /\ reason' = "DESELECTED") <=> LinesInactive
            /\ (pc' = "capture" /\ reason' = reason) <=> ~LinesInactive]_vars

\* the lines fell during a read, and the sample after it ended the session
\* before the buffer was full
C4_Witness ==
    /\ pc = "done"
    /\ reason = "DESELECTED"
    /\ desel_ever
    /\ capture_len > 1
    /\ capture_len < CAPTURE_SIZE

\* the three exits of the capture loop, each with the condition it claims
C5_ExitFull == reason' = "FULL" /\ capture_len = CAPTURE_SIZE /\ pc = "capture"
C5_ExitTimeout ==
    /\ reason' = "TIMEOUT"
    /\ pc = "capture"
    /\ timer > CAPTURE_TIMEOUT_US
    /\ capture_len < CAPTURE_SIZE
C5_ExitDeselected == reason' = "DESELECTED" /\ pc = "read" /\ LinesInactive

\* C5: every session ends; a session leaves CAPTURING only into DONE, by
\* exactly one of three exits, each taken only under its own condition:
\* FULL with 128 bytes stored, TIMEOUT with the timeout exceeded and room left,
\* DESELECTED with both enable lines sampled inactive.
C5_ThreeExits ==
    /\ [][(Capturing /\ ~Capturing')
            => /\ pc' = "done"
               /\ capture_len' \in 1..CAPTURE_SIZE
               /\ \/ C5_ExitFull /\ ~C5_ExitTimeout /\ ~C5_ExitDeselected
                  \/ ~C5_ExitFull /\ C5_ExitTimeout /\ ~C5_ExitDeselected
                  \/ ~C5_ExitFull /\ ~C5_ExitTimeout /\ C5_ExitDeselected]_vars
    /\ [](pc = "done" => reason \in {"FULL", "TIMEOUT", "DESELECTED"})
    /\ ((pc \notin {"idle", "done"}) ~> (pc = "done"))

\* sessions ended by each of the three exits of the capture loop: this one
\* ended FULL although the lines had fallen and come back during a read
C5_Witness ==
    /\ pc = "done"
    /\ reason = "FULL"
    /\ desel_ever
    /\ ~LinesInactive

\* C6: the session goes from WAIT_FOR_REQUEST to ACTIVITY_CHECK only on seeing
\* the write request low less than WAIT_TIMEOUT_US after the wait began;
\* otherwise it leaves the wait at or after WAIT_TIMEOUT_US straight into DONE
\* with reason TIMEOUT, an empty buffer and no byte stored.
C6_RequestWait ==
    /\ [][(pc = "wait" /\ pc' # "wait")
            => \/ /\ pc' = "activity"
                  /\ wreq = 0
                  /\ timer < WAIT_TIMEOUT_US
               \/ /\ pc' = "done"
                  /\ reason' = "TIMEOUT"
                  /\ timer >= WAIT_TIMEOUT_US
                  /\ capture_len' = 0
                  /\ wr_index' = -1]_vars
    /\ []((pc = "done" /\ wr_index = -1) => (reason = "TIMEOUT" /\ capture_len = 0))
    /\ [](pc \in {"activity", "checked", "capture", "read"} => reason = "NONE")

\* the request wait timed out: DONE(TIMEOUT) with nothing captured
C6_Witness ==
    /\ pc = "done"
    /\ reason = "TIMEOUT"
    /\ capture_len = 0
    /\ wr_index = -1
    /\ timer >= WAIT_TIMEOUT_US
    /\ wreq = 1
(***************************************************************************)
(* Claims about the decoder                                                *)
(***************************************************************************)
\* the six bytes from index k on are captured and equal the sync pattern
SyncAt(k) ==
    /\ k >= 0
    /\ k + SyncLen <= capture_len
    /\ \A j \in 1..SyncLen : capture_buffer[k + j - 1] = SYNC_PATTERN[j]

Captured == 0..(capture_len - 1)

\* C7: find_sync_pattern returns k exactly when the pattern is at k and at no
\* smaller offset, -1 exactly when it is nowhere (so for every buffer shorter
\* than 6 bytes), and compares no index at or beyond capture_len.
C7_LeftmostSync ==
    pc = "analyzed" =>
        /\ \A k \in 0..(CAPTURE_SIZE - 1) :
              (report.sync = k) <=> (SyncAt(k) /\ \A m \in 0..(k - 1) : ~SyncAt(m))
        /\ (report.sync = -1) <=> (\A k \in 0..(CAPTURE_SIZE - 1) : ~SyncAt(k))
        /\ report.sync \in -1..(CAPTURE_SIZE - SyncLen)
        /\ (capture_len < SyncLen => report.sync = -1)
        /\ reads.sync \subseteq Captured

\* the pattern found at offset 5, right at the end of the captured bytes, after
\* a run of the pattern that broke at its fifth byte
C7_Witness ==
    /\ pc = "analyzed"
    /\ report.sync = 5
    /\ capture_len = 5 + SyncLen
    /\ capture_buffer[0] = 255
    /\ capture_buffer[3] = 243
    /\ capture_buffer[4] = 0

\* the names of the command codes 0x00..0x09, as the wire protocol lists them
CommandNames ==
    <<"STATUS", "READBLOCK", "WRITEBLOCK", "FORMAT", "CONTROL",
      "INIT", "OPEN", "CLOSE", "READ", "WRITE">>
NameOfCode(c) == IF c \in 0..9 THEN CommandNames[c + 1] ELSE "UNKNOWN"

\* the captured bytes are SYNC ++ [0xC3, dest, src, 0x80, aux, status, odd, grp, cmd, ...]
C8_Form ==
    /\ capture_len >= SyncLen + 9
    /\ SyncAt(0)
    /\ capture_buffer[SyncLen] = PKT_START
    /\ capture_buffer[SyncLen + 3] = 128

\* C8: for such a buffer the decoder reports dest, src and type from offsets
\* +1, +2, +3 after the packet start byte, and the command byte at +8 with its
\* name from the table, UNKNOWN for every code above 0x09.
C8_DecodesCommand ==
    (pc = "analyzed" /\ C8_Form) =>
        /\ report.sync = 0
        /\ report.pkt = SyncLen
        /\ report.hdr = <<capture_buffer[SyncLen + 1], capture_buffer[SyncLen + 2], 128>>
        /\ report.cmd = <<capture_buffer[SyncLen + 8],
                          NameOfCode(capture_buffer[SyncLen + 8])>>

\* the command byte is the last captured byte, and it is WRITE
C8_Witness ==
    /\ pc = "analyzed"
    /\ C8_Form
    /\ capture_len = SyncLen + 9
    /\ report.cmd = <<9, "WRITE">>

\* C9: the analysis reads only captured bytes, and when the captured length
\* ends before the command byte at packet start + 8 no command is reported.
C9_ReadsWithinLength ==
    pc = "analyzed" =>
        /\ (reads.sync \cup reads.decode) \subseteq Captured
        /\ (report.pkt >= 0 /\ capture_len <= report.pkt + 8) => report.cmd = <<>>
        /\ report.cmd # <<>> => (report.pkt + 8) \in Captured

\* the captured bytes end right before a command byte that is in the array
C9_Witness ==
    /\ pc = "analyzed"
    /\ report.pkt >= 0
    /\ capture_len = report.pkt + 8
    /\ capture_buffer[report.pkt + 3] = 128
    /\ capture_buffer[report.pkt + 8] = 1
    /\ report.cmd = <<>>

\* C10 as claimed: when the buffer ends inside the header, the fields that lie
\* within the captured length are still reported: dest, src and type as soon
\* as the buffer reaches packet start + 3.
C10_DeepestField ==
    (pc = "analyzed" /\ report.pkt >= 0 /\ capture_len > report.pkt + 3) =>
        report.hdr = <<capture_buffer[report.pkt + 1], capture_buffer[report.pkt + 2],
                       capture_buffer[report.pkt + 3]>>

\* C10 as amended: the header is reported all or nothing.  When the buffer
\* ends at or before packet start + 8 no header field is reported; dest, src
\* and type are reported, together, exactly when the command byte at +8 is
\* captured too.
C10_AllOrNothing ==
    (pc = "analyzed" /\ report.pkt >= 0) =>
        IF capture_len > report.pkt + 8
        THEN report.hdr = <<capture_buffer[report.pkt + 1],
                            capture_buffer[report.pkt + 2],
                            capture_buffer[report.pkt + 3]>>
        ELSE report.hdr = <<>> /\ report.cmd = <<>>

\* the buffer reaches the type byte at +3 but not the command byte at +8
C10_Witness ==
    /\ pc = "analyzed"
    /\ report.pkt >= 0
    /\ capture_len = report.pkt + 4
    /\ report.hdr = <<>>

(***************************************************************************)
(* read_byte_raw, sample by sample                                         *)
(***************************************************************************)
\* iterations of the loop of read_byte_raw
BitsPerByte == 8

\* the host holds each bit on PIN_WRDATA for one cell of BIT_TIME_US
LineAt(t) == rb_line[(t \div BIT_TIME_US) + 1]

\* uint8_t byte = 0; for (int i = 0; ...
ReadByteCall ==
    /\ rb_pc = "idle"
    /\ rb_pc' = "delay1"
    /\ rb_i' = 0
    /\ rb_byte' = 0
    /\ rb_clock' = 0
    /\ rb_times' = <<>>
    /\ UNCHANGED <<rb_line, capvars, linevars, mainvars>>

\* i < 8: esp_rom_delay_us(HALF_BIT_US), the first one of the iteration
ReadByteFirstDelay ==
    /\ rb_pc = "delay1"
    /\ rb_i < BitsPerByte
    /\ rb_clock' = rb_clock + HALF_BIT_US
    /\ rb_pc' = "sample"
    /\ UNCHANGED <<rb_i, rb_byte, rb_times, rb_line, capvars, linevars, mainvars>>

\* byte = (byte << 1) | (read_wrdata() ? 1 : 0)
ReadByteSample ==
    /\ rb_pc = "sample"
    /\ rb_byte' = ShiftIn(rb_byte, LineAt(rb_clock))
    /\ rb_times' = Append(rb_times, rb_clock)
    /\ rb_pc' = "delay2"
    /\ UNCHANGED <<rb_i, rb_clock, rb_line, capvars, linevars, mainvars>>

\* esp_rom_delay_us(HALF_BIT_US), the second one; i++
ReadByteSecondDelay ==
    /\ rb_pc = "delay2"
    /\ rb_clock' = rb_clock + HALF_BIT_US
    /\ rb_i' = rb_i + 1
    /\ rb_pc' = "delay1"
    /\ UNCHANGED <<rb_byte, rb_times, rb_line, capvars, linevars, mainvars>>

\* i >= 8: return byte
ReadByteReturn ==
    /\ rb_pc = "delay1"
    /\ rb_i >= BitsPerByte
    /\ rb_pc' = "ret"
    /\ UNCHANGED <<rb_i, rb_byte, rb_clock, rb_times, rb_line, capvars, linevars, mainvars>>

\* the capture buffer untouched, no session under way
CaptureAtRest ==
    /\ pc = "idle"
    /\ reason = "NONE"
    /\ capture_buffer = [i \in 0..(CAPTURE_SIZE - 1) |-> 0]
    /\ capture_len = 0
    /\ timer = 0
    /\ transitions = 0
    /\ wr_index = -1
    /\ desel_ever = FALSE
    /\ report = NoReport
    /\ reads = NoReads

\* one call of read_byte_raw for each sequence of levels in the 8 bit cells
InitByte ==
    /\ CaptureAtRest
    /\ enbl1 = 0
    /\ enbl2 = 1
    /\ wreq = 0
    /\ wrdata = 1
    /\ LinesConfigured
    /\ MainAtRest
    /\ rb_pc = "idle"
    /\ rb_i = 0
    /\ rb_byte = 0
    /\ rb_clock = 0
    /\ rb_times = <<>>
    /\ rb_line \in [1..BitsPerByte -> Level]

NextByte ==
    \/ ReadByteCall
    \/ ReadByteFirstDelay
    \/ ReadByteSample
    \/ ReadByteSecondDelay
    \/ ReadByteReturn

SpecByte == InitByte /\ [][NextByte]_vars

(***************************************************************************)
(* Claims about read_byte_raw                                              *)
(***************************************************************************)
\* the value of 8 bits of which the first is the most significant
MsbFirstValue(line) ==
    line[1] * 128 + line[2] * 64 + line[3] * 32 + line[4] * 16
    + line[5] * 8 + line[6] * 4 + line[7] * 2 + line[8]

\* the middle of bit cell k (k = 1..8), counted from the call
MidCell(k) == (k - 1) * BIT_TIME_US + HALF_BIT_US

\* C11: a call of read_byte_raw takes exactly 8 samples, the k-th one at the
\* 2 us midpoint of the k-th 4 us bit cell, and returns them MSB first: a
\* line held at 1 gives 0xFF, held at 0 gives 0x00, the samples
\* 1,0,1,1,0,0,1,0 give 0xB2; the call has delayed for 32 us when it returns.
C11_ByteAssembly ==
    rb_pc = "ret" =>
        /\ Len(rb_times) = 8
        /\ \A k \in 1..8 : rb_times[k] = MidCell(k)
        /\ rb_byte = MsbFirstValue(rb_line)
        /\ rb_byte = read_byte_raw(rb_line)
        /\ (rb_line = HeldSamples(1) => rb_byte = 255)
        /\ (rb_line = HeldSamples(0) => rb_byte = 0)
        /\ (rb_line = <<1, 0, 1, 1, 0, 0, 1, 0>> => rb_byte = 178)
        /\ rb_clock = 32

\* the call that sampled 1,0,1,1,0,0,1,0 has returned 0xB2
C11_Witness ==
    /\ rb_pc = "ret"
    /\ rb_line = <<1, 0, 1, 1, 0, 0, 1, 0>>
    /\ rb_byte = 178
    /\ rb_clock = 32

(***************************************************************************)
(* Claims about the classification and the header                          *)
(***************************************************************************)
AllCaptured(b) == \A i \in Captured : capture_buffer[i] = b

\* C12 as stated: without sync pattern the buffer is classified uniform-zero
\* iff every captured byte is 0x00, uniform-one iff every captured byte is
\* 0xFF, and mixed otherwise.  An empty capture is both, and is reported as
\* uniform-zero only.
C12_ClassByContent ==
    (pc = "analyzed" /\ report.sync = -1) =>
        /\ report.warn \in {"ALL_ZERO", "ALL_ONE", "NO_SYNC"}
        /\ (report.warn = "ALL_ZERO" <=> AllCaptured(0))
        /\ (report.warn = "ALL_ONE" <=> AllCaptured(255))
        /\ (report.warn = "NO_SYNC" <=> ~AllCaptured(0) /\ ~AllCaptured(255))

\* C12: without sync pattern the buffer gets exactly one of the three
\* classifications: uniform-zero iff every captured byte is 0x00 (the empty
\* capture included), uniform-one iff at least one byte was captured and
\* all of them are 0xFF, mixed otherwise; no classification when a sync
\* pattern was found.
C12_ClassByContentNonEmpty ==
    /\ (pc = "analyzed" /\ report.sync = -1) =>
          /\ report.warn \in {"ALL_ZERO", "ALL_ONE", "NO_SYNC"}
          /\ (report.warn = "ALL_ZERO" <=> AllCaptured(0))
          /\ (report.warn = "ALL_ONE" <=> capture_len > 0 /\ AllCaptured(255))
          /\ (report.warn = "NO_SYNC" <=> ~AllCaptured(0) /\ ~AllCaptured(255))
    /\ (pc = "analyzed" /\ report.sync >= 0) => report.warn = ""

\* an empty capture has been classified uniform-zero
C12_Witness ==
    /\ pc = "analyzed"
    /\ capture_len = 0
    /\ report.sync = -1
    /\ report.warn = "ALL_ZERO"

\* the index right after the sync pattern that was found
AfterSync == report.sync + SyncLen

\* the byte after the sync pattern was captured and is the packet start byte
StartFollowsSync ==
    /\ report.sync >= 0
    /\ AfterSync < capture_len
    /\ capture_buffer[AfterSync] = 195

\* C13: header fields are reported only if the byte right after the sync
\* pattern (index sync_offset + 6) lies within the captured length and is
\* 0xC3; a pattern that ends the buffer or is followed by another byte gives
\* the plain result "no packet start": no header field is read or reported,
\* no warning is raised and the analysis completes.
C13_HeaderNeedsPacketStart ==
    pc = "analyzed" =>
        /\ (report.hdr # <<>> \/ report.cmd # <<>> \/ reads.header # {})
              => StartFollowsSync
        /\ (report.pkt >= 0) <=> StartFollowsSync
        /\ StartFollowsSync => report.pkt = AfterSync
        /\ (report.sync >= 0 /\ ~StartFollowsSync) =>
              /\ report.pkt = -1
              /\ report.hdr = <<>>
              /\ report.cmd = <<>>
              /\ report.warn = ""
              /\ reads.header = {}
              /\ (AfterSync >= capture_len => AfterSync \notin reads.decode)

\* a whole header lies behind a sync pattern and a byte that is not 0xC3:
\* nothing of it has been reported
C13_Witness ==
    /\ pc = "analyzed"
    /\ report.sync >= 0
    /\ AfterSync + 8 < capture_len
    /\ capture_buffer[AfterSync] = 60
    /\ report.pkt = -1
    /\ report.hdr = <<>>

\* the type byte of the packet that was found
TypeByte == capture_buffer[report.pkt + 3]

\* C20: the command byte at packet start + 8 is reported, with its name, only
\* when the type byte at packet start + 3 is 0x80 or 0x85; for every other
\* type value dest, src and type are reported and no command is.
C20_CommandByType ==
    pc = "analyzed" =>
        /\ report.cmd # <<>> =>
              /\ report.pkt >= 0
              /\ report.pkt + 8 < capture_len
              /\ TypeByte \in {128, 133}
              /\ report.cmd = <<capture_buffer[report.pkt + 8],
                                NameOfCode(capture_buffer[report.pkt + 8])>>
        /\ (report.pkt >= 0 /\ report.pkt + 8 < capture_len) =>
              /\ report.hdr = <<capture_buffer[report.pkt + 1],
                                capture_buffer[report.pkt + 2], TypeByte>>
              /\ (TypeByte \in {128, 133} <=> report.cmd # <<>>)

\* a header of type 0x81 has been reported without a command
C20_Witness ==
    /\ pc = "analyzed"
    /\ report.pkt >= 0
    /\ report.pkt + 8 < capture_len
    /\ TypeByte = 129
    /\ report.hdr = <<129, 130, 129>>
    /\ report.cmd = <<>>

(***************************************************************************)
(* ack_assert and ack_deassert, called on a line in any state              *)
(***************************************************************************)
\* the direction modes configure_gpio and the handshake functions use
GpioModes == {"INPUT", "INPUT_OUTPUT", "OUTPUT"}

\* a call that sets the level and leaves the direction alone
AckModeAfter_Kept(mode) == mode

\* gpio_set_direction(PIN_ACK, GPIO_MODE_OUTPUT)
AckModeAfter(mode) == "OUTPUT"

\* PIN_ACK after ack_assert(): gpio_set_level(PIN_ACK, 0), then the direction
AssertedAck(level, mode) == [level |-> 0, mode |-> AckModeAfter(mode)]

\* PIN_ACK after ack_deassert(): gpio_set_level(PIN_ACK, 1), then the direction
DeassertedAck(level, mode) == [level |-> 1, mode |-> AckModeAfter(mode)]

ack_assert ==
    /\ ack_level' = AssertedAck(ack_level, ack_mode).level
    /\ ack_mode' = AssertedAck(ack_level, ack_mode).mode
    /\ last_call' = "ack_assert"
    /\ UNCHANGED <<rddata_level, rddata_mode, capvars, mainvars, rbvars>>

ack_deassert ==
    /\ ack_level' = DeassertedAck(ack_level, ack_mode).level
    /\ ack_mode' = DeassertedAck(ack_level, ack_mode).mode
    /\ last_call' = "ack_deassert"
    /\ UNCHANGED <<rddata_level, rddata_mode, capvars, mainvars, rbvars>>

\* what the capture buffer holds when the handshake functions are called
AckContents == {<<>>, SYNC_PATTERN, Packet(PKT_START, 128, 1)}

\* both output lines at any level and in any mode, a capture in the buffer
InitAck ==
    /\ pc = "done"
    /\ reason = "DESELECTED"
    /\ \E c \in AckContents :
          /\ capture_buffer = BufferOf(c)
          /\ capture_len = Len(c)
    /\ timer = capture_len * ByteTimeUs
    /\ transitions = 0
    /\ enbl1 = 1
    /\ enbl2 = 1
    /\ wreq = 0
    /\ wrdata = 1
    /\ wr_index = capture_len - 1
    /\ desel_ever = FALSE
    /\ report = NoReport
    /\ reads = NoReads
    /\ ack_level \in Level
    /\ ack_mode \in GpioModes
    /\ rddata_level \in Level
    /\ rddata_mode \in GpioModes
    /\ last_call = "none"
    /\ MainAtRest
    /\ ReadByteAtRest

NextAck == ack_assert \/ ack_deassert

SpecAck == InitAck /\ [][NextAck]_vars

(***************************************************************************)
(* Claims about the output lines                                           *)
(***************************************************************************)
\* where the last handshake call left PIN_ACK
AckAsCalled ==
    /\ last_call = "ack_assert" => (ack_level = 0 /\ ack_mode = "OUTPUT")
    /\ last_call = "ack_deassert" => (ack_level = 1 /\ ack_mode = "OUTPUT")

\* a second call of either function changes nothing the first one set
AckIdempotent ==
    LET a == AssertedAck(ack_level, ack_mode)
        d == DeassertedAck(ack_level, ack_mode)
    IN  /\ AssertedAck(a.level, a.mode) = a
        /\ DeassertedAck(d.level, d.mode) = d

\* C14: after ack_assert() PIN_ACK is LOW in output mode, after ack_deassert()
\* it is HIGH in output mode, whatever level and mode it had before; calling
\* either twice gives what calling it once gives; no call changes the
\* read-data line, the capture buffer or the capture length.
C14_AckDrivesLine ==
    /\ [](AckAsCalled /\ AckIdempotent)
    /\ [][/\ UNCHANGED <<rddata_level, rddata_mode, capture_buffer, capture_len>>
          /\ (last_call' = last_call /\ last_call # "none") =>
                UNCHANGED <<ack_level, ack_mode>>]_vars

\* ack_assert() has been called with a capture in the buffer and with the
\* read-data line low in input mode
C14_Witness ==
    /\ last_call = "ack_assert"
    /\ ack_level = 0
    /\ ack_mode = "OUTPUT"
    /\ rddata_level = 0
    /\ rddata_mode = "INPUT"
    /\ capture_len = SyncLen

\* C15: configure_gpio leaves PIN_ACK and PIN_RDDATA HIGH, and no step of a
\* capture session (request wait, activity check, capturing) writes a line:
\* levels and modes of both outputs are those of the configuration in every
\* state of every session, whatever its outcome.
C15_SessionsOnlyRead ==
    /\ [](/\ ack_level = 1
          /\ rddata_level = 1
          /\ ack_mode = "INPUT_OUTPUT"
          /\ rddata_mode = "OUTPUT")
    /\ [][UNCHANGED <<ack_level, ack_mode, rddata_level, rddata_mode>>]_vars

\* a session that captured bytes has ended on deselection, both lines HIGH
C15_Witness ==
    /\ pc = "done"
    /\ reason = "DESELECTED"
    /\ capture_len > 1
    /\ ack_level = 1
    /\ rddata_level = 1

(***************************************************************************)
(* Claims about the activity check and the buffer across sessions          *)
(***************************************************************************)
InSession == pc \in {"wait", "activity", "checked", "capture", "read"}

\* C16: once the write request was seen, the session goes from the activity
\* check to capturing when the 2 ms window is over, whatever number of
\* transitions was counted, zero included; the count changes neither the
\* buffer, the length nor the outcome, and is not used after the check; the
\* capture timer starts at 0 when capturing starts, not at the session start.
C16_ActivityThenCapture ==
    /\ (pc = "activity") ~> (pc = "capture")
    /\ [](pc = "checked" => timer = ACTIVITY_WINDOW_US)
    /\ [](Capturing => transitions = 0)
    /\ [][/\ (pc = "activity" /\ pc' # pc) =>
                /\ pc' = "checked"
                /\ UNCHANGED <<capture_buffer, capture_len, reason>>
          /\ pc = "checked" =>
                /\ pc' = "capture"
                /\ timer' = 0
                /\ UNCHANGED <<capture_buffer, capture_len, reason>>]_vars

\* the activity check has ended without a single transition counted
C16_Witness ==
    /\ pc = "checked"
    /\ transitions = 0
    /\ timer = ACTIVITY_WINDOW_US
    /\ wreq = 0

\* C17: the length is 0 when a session starts its request wait; within a
\* session the length never decreases, every store goes to the element at
\* the current length and raises the length by one, so no stored byte is
\* overwritten; the length at the end counts the stores of that session.
C17_AppendOnly ==
    /\ [](pc = "wait" => capture_len = 0 /\ wr_index = -1)
    /\ [](pc = "done" => capture_len = wr_index + 1)
    /\ [][/\ (pc' = "wait" /\ pc # "wait") => capture_len' = 0
          /\ InSession =>
                /\ capture_len' >= capture_len
                /\ \A i \in 0..(capture_len - 1) :
                      capture_buffer'[i] = capture_buffer[i]
                /\ (capture_len' # capture_len \/ wr_index' # wr_index
                      \/ capture_buffer' # capture_buffer) =>
                      /\ wr_index' = capture_len
                      /\ capture_len' = capture_len + 1
                      /\ \A i \in DOMAIN capture_buffer :
                            i # capture_len => capture_buffer'[i] = capture_buffer[i]]_vars

\* a session has ended with one byte while the buffer still holds a byte
\* of an earlier, longer session behind it
C17_Witness ==
    /\ pc = "done"
    /\ capture_len = 1
    /\ capture_buffer[0] = 255
    /\ capture_buffer[1] = 255

(***************************************************************************)
(* app_main: the main loop                                                 *)
(***************************************************************************)
\* line 462: the wait for the drive to be disabled gives up after 3 s
REARM_TIMEOUT_US == 3000000
\* line 463: vTaskDelay(pdMS_TO_TICKS(10)), in microseconds
REARM_POLL_US == 10000

\* read_phases(): PHI3..PHI0 packed in 4 bits
PhaseValues == 0..15

\* line 394: enabled && (phases == 0x0A || phases == 0x0B)
EnablePattern(enabled, ph) == enabled /\ (ph = 10 \/ ph = 11)

\* a wait that only ends when the drive is disabled
WaitGoesOn_NoTimeout(enabled, t) == enabled

\* line 462: drive_enabled() && (esp_timer_get_time() - wait_start) < 3000000
WaitGoesOn(enabled, t) == enabled /\ t < REARM_TIMEOUT_US

\* lines 390-396, 470-485: one pass of the loop that reads the lines; with the
\* enable pattern and command_active false it enters the handler, otherwise
\* it does the bookkeeping of the else branch and of last_phases
MainPoll ==
    /\ main_pc = "poll"
    /\ LET enabled == drive_enabled(enbl1, enbl2)
       IN  IF EnablePattern(enabled, phases)
           THEN IF ~command_active
                THEN /\ command_active' = TRUE
                     /\ main_pc' = "sample"
                     /\ UNCHANGED last_phases
                ELSE /\ last_phases' = phases
                     /\ UNCHANGED <<command_active, main_pc>>
           ELSE /\ command_active' = (command_active /\ enabled)
                /\ last_phases' = phases
                /\ UNCHANGED main_pc
    /\ UNCHANGED <<phases, capvars, linevars, rbvars>>

\* lines 398-457: 2000 samples of the input lines are logged and printed,
\* "[SP] Command complete"; line 461: wait_start = esp_timer_get_time()
FastSample ==
    /\ main_pc = "sample"
    /\ main_pc' = "wait_disable"
    /\ timer' = 0
    /\ UNCHANGED <<command_active, phases, last_phases, linevars, rbvars>>
    /\ UNCHANGED <<pc, reason, capture_buffer, capture_len, transitions, enbl1,
                   enbl2, wreq, wrdata, wr_index, desel_ever, report, reads>>

\* lines 462-464: the drive is still enabled and 3 s have not passed
WaitDisabledPoll ==
    /\ main_pc = "wait_disable"
    /\ WaitGoesOn(drive_enabled(enbl1, enbl2), timer)
    /\ timer' = timer + REARM_POLL_US
    /\ UNCHANGED <<mainvars, linevars, rbvars>>
    /\ UNCHANGED <<pc, reason, capture_buffer, capture_len, transitions, enbl1,
                   enbl2, wreq, wrdata, wr_index, desel_ever, report, reads>>

\* lines 462, 465-467, 477-485: the wait is over (wait_start goes out of
\* scope), command_active = false, the debounce delay, the bookkeeping of
\* last_phases, back to the loop head
Rearm ==
    /\ main_pc = "wait_disable"
    /\ ~WaitGoesOn(drive_enabled(enbl1, enbl2), timer)
    /\ command_active' = FALSE
    /\ last_phases' = phases
    /\ main_pc' = "poll"
    /\ timer' = 0
    /\ UNCHANGED <<phases, linevars, rbvars>>
    /\ UNCHANGED <<pc, reason, capture_buffer, capture_len, transitions, enbl1,
                   enbl2, wreq, wrdata, wr_index, desel_ever, report, reads>>

\* the host changes the enable lines, at any time
HostEnableMain ==
    /\ \E e1, e2 \in Level :
          /\ <<e1, e2>> # <<enbl1, enbl2>>
          /\ enbl1' = e1
          /\ enbl2' = e2
    /\ UNCHANGED <<mainvars, linevars, rbvars>>
    /\ UNCHANGED <<pc, reason, capture_buffer, capture_len, timer, transitions,
                   wreq, wrdata, wr_index, desel_ever, report, reads>>

\* the host changes the phase lines; the loop reads them at its head only
HostPhases ==
    /\ main_pc = "poll"
    /\ \E p \in PhaseValues :
          /\ p # phases
          /\ phases' = p
    /\ UNCHANGED <<main_pc, command_active, last_phases, capvars, linevars, rbvars>>

\* lines 383-387: the lines configured, the locals initialised
InitMain ==
    /\ CaptureAtRest
    /\ enbl1 \in Level
    /\ enbl2 \in Level
    /\ wreq = 1
    /\ wrdata = 1
    /\ LinesConfigured
    /\ MainAtRest
    /\ ReadByteAtRest

MainFirmware ==
    \/ MainPoll
    \/ FastSample
    \/ WaitDisabledPoll
    \/ Rearm

NextMain ==
    \/ MainFirmware
    \/ HostEnableMain
    \/ HostPhases

SpecMain == InitMain /\ [][NextMain]_vars

LiveSpecMain == SpecMain /\ WF_vars(MainFirmware)

(***************************************************************************)
(* Claims about the main loop                                              *)
(***************************************************************************)
\* C18 as stated: the main loop starts a capture session when it observes the
\* enable pattern while none is active, so while it handles a detected
\* pattern a session has been started, and a session only exists then.
\* app_main never calls capture_packet: no session is ever started.
C18_SessionOnEnablePattern ==
    /\ main_pc # "poll" => pc # "idle"
    /\ pc # "idle" => command_active

\* C19: command_active is false at the head of every pass of the loop; the
\* wait for the drive to be disabled never lasts longer than 3 s and ends
\* only when the drive is disabled or 3 s have passed; every handling of a
\* detected enable pattern ends with command_active false and the loop back
\* at its head, also when the drive stays enabled forever.
C19_LoopRearms ==
    /\ [](main_pc = "poll" => ~command_active)
    /\ [](main_pc = "wait_disable" => timer <= REARM_TIMEOUT_US)
    /\ command_active ~> (main_pc = "poll" /\ ~command_active)
    /\ [][(main_pc = "wait_disable" /\ main_pc' # main_pc) =>
             /\ main_pc' = "poll"
             /\ ~command_active'
             /\ (~drive_enabled(enbl1, enbl2) \/ timer >= REARM_TIMEOUT_US)]_vars

\* the wait has lasted its 3 s with the drive still enabled
C19_Witness ==
    /\ main_pc = "wait_disable"
    /\ command_active
    /\ drive_enabled(enbl1, enbl2)
    /\ timer = REARM_TIMEOUT_US

(***************************************************************************)
(* Claims about the timing and the sampling of the enable lines            *)
(***************************************************************************)
\* no byte read of the session was held up: the capture timer shows 32 us
\* for each byte stored
Nominal == timer = capture_len * ByteTimeUs

\* the session got as far as the capture loop and stored a byte
StoredBytes == wr_index >= 0

\* C21: while every byte read takes exactly 32 us, counted from the start of
\* capturing, the capture timeout does not run out: the timeout exit is only
\* taken after a read was held up, and a session that is not ended by
\* deselection ends FULL with 128 bytes at 4096 us; every such session ends.
C21_NominalEndsFull ==
    /\ []((Capturing /\ Nominal) => timer <= CAPTURE_TIMEOUT_US)
    /\ []((pc = "done" /\ StoredBytes /\ Nominal /\ reason # "DESELECTED")
            => /\ reason = "FULL"
               /\ capture_len = 128
               /\ timer = 4096)
    /\ [][(Capturing /\ reason' = "TIMEOUT") => ~Nominal]_vars
    /\ ((Capturing /\ Nominal) ~> (pc = "done"))

\* a session has filled the buffer in 4096 us
C21_Witness ==
    /\ pc = "done"
    /\ reason = "FULL"
    /\ capture_len = CAPTURE_SIZE
    /\ timer = 4096
    /\ ~desel_ever

\* C22: the enable lines are sampled only after a byte was stored in the
\* capture loop.  With both lines inactive the request wait still goes on to
\* the activity check or ends by its own timeout, the activity check still
\* goes on to capturing, and the capture loop still starts its first read;
\* a session becomes DESELECTED only in the step that stores a byte, so it
\* ends DESELECTED with at least one byte stored.
C22_SampledOnlyAfterStore ==
    /\ [][/\ (pc = "wait" /\ pc' # pc /\ LinesInactive) =>
                \/ pc' = "activity" /\ wreq = 0
                \/ pc' = "done" /\ reason' = "TIMEOUT" /\ timer >= WAIT_TIMEOUT_US
          /\ (pc = "activity" /\ pc' # pc) => pc' = "checked"
          /\ pc = "checked" => pc' = "capture"
          /\ (pc = "capture" /\ capture_len = 0) => pc' = "read"
          /\ (reason' = "DESELECTED" /\ reason # "DESELECTED") =>
                /\ pc = "read"
                /\ LinesInactive
                /\ capture_len' = capture_len + 1
                /\ wr_index' = capture_len]_vars
    /\ []((pc = "done" /\ reason = "DESELECTED") => (capture_len >= 1 /\ StoredBytes))
    /\ [](pc \in {"wait", "activity", "checked"} => reason = "NONE")

\* the enable lines were inactive before the first read began and did not
\* change during it: the session stored one byte and ended DESELECTED
C22_Witness ==
    /\ pc = "done"
    /\ reason = "DESELECTED"
    /\ capture_len = 1
    /\ LinesInactive
    /\ ~desel_ever

(***************************************************************************)
(* Claims about the packet start and later sync patterns                   *)
(***************************************************************************)
\* the pattern is at k and at no smaller offset
LeftmostSyncAt(k) == SyncAt(k) /\ \A m \in 0..(k - 1) : ~SyncAt(m)

\* the byte right after the pattern at k was captured and is 0xC3
StartFollows(k) == k + SyncLen < capture_len /\ capture_buffer[k + SyncLen] = 195

\* a pattern at k, followed by 0xC3 and a header that reaches the command byte
PacketBehind(k) == SyncAt(k) /\ StartFollows(k) /\ k + SyncLen + 8 < capture_len

\* C23: the packet start byte is tested only after the leftmost sync
\* pattern.  A packet is reported only at that place and header fields are
\* read only there; if 0xC3 does not follow the leftmost pattern nothing is
\* decoded, also when a later pattern, overlapping the first one or not, is
\* followed by 0xC3 and a complete header.
C23_OnlyLeftmostTested ==
    pc = "analyzed" =>
        \A k \in 0..(CAPTURE_SIZE - 1) :
            LeftmostSyncAt(k) =>
                /\ report.sync = k
                /\ report.pkt \in {-1, k + SyncLen}
                /\ reads.header \subseteq
                      {k + SyncLen + 1, k + SyncLen + 2, k + SyncLen + 3, k + SyncLen + 8}
                /\ ~StartFollows(k) =>
                      /\ report.pkt = -1
                      /\ report.hdr = <<>>
                      /\ report.cmd = <<>>
                      /\ reads.header = {}

\* the pattern at offset 0 is followed by 0x3F, the overlapping pattern at
\* offset 5 by 0xC3 and a complete header: nothing has been decoded
C23_Witness ==
    /\ pc = "analyzed"
    /\ LeftmostSyncAt(0)
    /\ ~StartFollows(0)
    /\ PacketBehind(5)
    /\ report.sync = 0
    /\ report.pkt = -1
    /\ report.hdr = <<>>

============================================================================
